---- MODULE Spec2Model ----
(***************************************************************************)
(* linkdrop: a dropped .url / .webloc shortcut is parsed for its target    *)
(* URL, the page is fetched, metadata is scraped and a "link-dropped"      *)
(* event is broadcast.  Model of src/src/lib.rs.                           *)
(*                                                                         *)
(* Text is modelled by TLA+ strings; Len, SubSeq and \o act on them the    *)
(* way Rust's len, slicing and concatenation act on ASCII text.            *)
(***************************************************************************)
EXTENDS Integers, Sequences, FiniteSets, TLC

VARIABLES
    dropped,    \* number of DroppedFile events delivered so far
    pc,         \* pc[i]: position of the thread spawned for drop i
    path,       \* path[i]: the PathBuf moved into thread i
    url,        \* url[i]: Option, the result of parse_shortcut in thread i
    resp,       \* resp[i]: Option, what the network answered to thread i
    ret,        \* ret[i]: Option, the value of handle_dropped_file in thread i
    panicLine,  \* panicLine[i]: source line of the unwrap that killed thread i, 0 if none
    fetches,    \* fetches[i]: number of HTTP requests thread i issued
    emitted,    \* the "link-dropped" events broadcast so far, in order
    handlerRet, \* the values the on_event closure returned, in order
    pin,        \* input of a direct call of parse_shortcut
    pout        \* Option, the result of that call

vars == <<dropped, pc, path, url, resp, ret, panicLine, fetches, emitted,
          handlerRet, pin, pout>>

----------------------------------------------------------------------------
(* Bounds of the model *)

MaxDrops == 2
MaxLines == 3
MaxSegs == 4

----------------------------------------------------------------------------
(* Option and Result values *)

None == [some |-> FALSE, val |-> ""]
Some(v) == [some |-> TRUE, val |-> v]
Err == [ok |-> FALSE, val |-> ""]
Ok(v) == [ok |-> TRUE, val |-> v]

----------------------------------------------------------------------------
(* str primitives of the Rust standard library *)

\* s[a..=b] with 1-based positions, cut to the extent of s
SliceBounded(s, lo, hi) == IF lo > hi THEN "" ELSE SubSeq(s, lo, hi)

Slice(s, a, b) ==
    SliceBounded(s, IF a < 1 THEN 1 ELSE a, IF b > Len(s) THEN Len(s) ELSE b)

\* the character at position i, "" outside s
Ch(s, i) == Slice(s, i, i)

Min(S) == CHOOSE x \in S : \A y \in S : x <= y
Max(S) == CHOOSE x \in S : \A y \in S : x >= y

\* char::is_whitespace, on the ASCII range
IsWhitespace(c) == c \in {" ", "\t", "\n", "\r", "\f"}

\* str::trim
Trim(s) ==
    LET keep == {i \in 1..Len(s) : ~IsWhitespace(Ch(s, i))}
    IN  IF keep = {} THEN "" ELSE Slice(s, Min(keep), Max(keep))

\* str::starts_with
StartsWith(s, p) == Len(s) >= Len(p) /\ Slice(s, 1, Len(p)) = p

\* str::strip_prefix
StripPrefix(s, p) ==
    IF StartsWith(s, p) THEN Some(Slice(s, Len(p) + 1, Len(s))) ELSE None

\* str::find: the 0-based offset of the first occurrence of p in s, or -1
RECURSIVE FindFrom(_, _, _)
FindFrom(s, p, i) ==
    IF i + Len(p) > Len(s) THEN -1
    ELSE IF Slice(s, i + 1, i + Len(p)) = p THEN i
    ELSE FindFrom(s, p, i + 1)

Find(s, p) == FindFrom(s, p, 0)

\* str::lines: pieces end at "\n"; one "\r" before that "\n" is dropped;
\* no empty piece follows a final "\n"
RECURSIVE Lines(_)
Lines(s) ==
    IF s = "" THEN <<>>
    ELSE LET n == Find(s, "\n")
         IN  IF n = -1 THEN <<s>>
             ELSE LET raw == Slice(s, 1, n)
                      line == IF n > 0 /\ Ch(raw, n) = "\r"
                              THEN Slice(raw, 1, n - 1) ELSE raw
                  IN  <<line>> \o Lines(Slice(s, n + 2, Len(s)))

\* the set of the characters of s
CharsOf(s) == {Ch(s, i) : i \in 1..Len(s)}

UpperChars == "ABCDEFGHIJKLMNOPQRSTUVWXYZ"
LowerChars == "abcdefghijklmnopqrstuvwxyz"

\* char::to_ascii_lowercase
LowerChar(c) ==
    LET n == Find(UpperChars, c) IN IF n = -1 THEN c ELSE Ch(LowerChars, n + 1)

\* str::to_ascii_lowercase
RECURSIVE ToAsciiLowercase(_)
ToAsciiLowercase(s) ==
    IF s = "" THEN ""
    ELSE LowerChar(Ch(s, 1)) \o ToAsciiLowercase(Slice(s, 2, Len(s)))

\* str::rfind of a single character: the 1-based position of its last
\* occurrence, or 0
LastIndexOf(s, c) ==
    LET at == {i \in 1..Len(s) : Ch(s, i) = c}
    IN  IF at = {} THEN 0 ELSE Max(at)

\* Path::file_name, for paths that do not end in "/" or ".."
FileName(p) == Slice(p, LastIndexOf(p, "/") + 1, Len(p))

\* Path::extension: the part of the file name after its last ".", absent
\* when there is no "." or the only "." is the first character
Extension(p) ==
    LET name == FileName(p)
        dot == LastIndexOf(name, ".")
    IN  IF dot <= 1 THEN None ELSE Some(Slice(name, dot + 1, Len(name)))

----------------------------------------------------------------------------
(* parse_shortcut *)

\* the `ext == "url"` branch: the first line with the prefix "URL="
RECURSIVE FirstUrlLine(_, _)
FirstUrlLine(lines, i) ==
    IF i > Len(lines) THEN Err
    ELSE LET rest == StripPrefix(lines[i], "URL=")
         IN  IF rest.some THEN Ok(Trim(rest.val))
             ELSE FirstUrlLine(lines, i + 1)

\* Mutant: every line is trimmed before it is compared with the prefix
ParseUrlFileTrimmedLines(content) ==
    LET lines == Lines(content)
    IN  FirstUrlLine([k \in 1..Len(lines) |-> Trim(lines[k])], 1)

ParseUrlFile(content) == FirstUrlLine(Lines(content), 1)

\* Mutant: "</string>" is searched from the start of the content
ParseWeblocCloseFromStart(content) ==
    LET start == Find(content, "<string>")
        after == start + Len("<string>")
        end == Find(content, "</string>")
    IN  IF start = -1 \/ end = -1 \/ end < after THEN Err
        ELSE Ok(Trim(Slice(content, after + 1, end)))

\* the `ext == "webloc"` branch: the text between the first "<string>" and
\* the first "</string>" after it
ParseWebloc(content) ==
    LET start == Find(content, "<string>")
    IN  IF start = -1 THEN Err
        ELSE LET after == start + Len("<string>")
                 tail == Slice(content, after + 1, Len(content))
                 end == Find(tail, "</string>")
             IN  IF end = -1 THEN Err
                 ELSE Ok(Trim(Slice(content, after + 1, after + end)))

\* file: what fs::read_to_string finds at the path
parse_shortcut(file, ext) ==
    IF ~file.readable THEN Err
    ELSE IF ext = "url" THEN ParseUrlFile(file.content)
    ELSE IF ext = "webloc" THEN ParseWebloc(file.content)
    ELSE Err

----------------------------------------------------------------------------
(* scraper::Selector::parse, for the selectors `tag` and `tag[attr op value]` *)

NameChars == "abcdefghijklmnopqrstuvwxyzABCDEFGHIJKLMNOPQRSTUVWXYZ0123456789_-"

NameCharSet == CharsOf(NameChars)

IsNameChar(c) == c \in NameCharSet

\* The CSS tokenizer's consume_name from position i: name characters, and
\* escapes, a backslash followed by a character that is neither a newline nor
\* a hex digit and that stands for itself.  NameEnd is the position after
\* the name, Unescape the value of the characters consumed.
RECURSIVE NameEnd(_, _)
NameEnd(s, i) ==
    IF i > Len(s) THEN i
    ELSE IF IsNameChar(Ch(s, i)) THEN NameEnd(s, i + 1)
    ELSE IF Ch(s, i) = "\\" /\ i < Len(s) /\ Ch(s, i + 1) # "\n"
    THEN NameEnd(s, i + 2)
    ELSE i

RECURSIVE Unescape(_)
Unescape(s) ==
    IF s = "" THEN ""
    ELSE IF Ch(s, 1) = "\\" THEN Ch(s, 2) \o Unescape(Slice(s, 3, Len(s)))
    ELSE Ch(s, 1) \o Unescape(Slice(s, 2, Len(s)))

ConsumeName(s, i) ==
    [val |-> Unescape(Slice(s, i, NameEnd(s, i) - 1)), next |-> NameEnd(s, i)]

\* A quoted string token starting at the quote at position i
ConsumeString(s, i) ==
    LET close == {j \in (i + 1)..Len(s) : Ch(s, j) = "\""}
    IN  IF close = {} THEN [val |-> Slice(s, i + 1, Len(s)), next |-> Len(s) + 1]
        ELSE [val |-> Slice(s, i + 1, Min(close) - 1), next |-> Min(close) + 1]

BadSelector == [ok |-> FALSE, tag |-> "", attr |-> "", op |-> "", value |-> ""]

\* The attribute block starting after the "[" at position i - 1: a name, an
\* operator, a value that is an identifier or a string, then the end of the
\* block; any other token after the value is a parse error
ParseAttribute(s, tag, i) ==
    LET a == ConsumeName(s, i)
        op == IF Ch(s, a.next) = "=" THEN "="
              ELSE IF Slice(s, a.next, a.next + 1) = "~=" THEN "~="
              ELSE ""
        vpos == a.next + Len(op)
        v == IF Ch(s, vpos) = "\"" THEN ConsumeString(s, vpos)
             ELSE ConsumeName(s, vpos)
    IN  IF a.val = "" \/ op = "" \/ v.next = vpos THEN BadSelector
        ELSE IF v.next = Len(s) /\ Ch(s, v.next) = "]"
        THEN [ok |-> TRUE, tag |-> tag, attr |-> a.val, op |-> op, value |-> v.val]
        ELSE BadSelector

SelectorParse(s) ==
    LET t == ConsumeName(s, 1)
    IN  IF t.val = "" THEN BadSelector
        ELSE IF t.next > Len(s)
        THEN [ok |-> TRUE, tag |-> t.val, attr |-> "", op |-> "", value |-> ""]
        ELSE IF Ch(s, t.next) = "[" THEN ParseAttribute(s, t.val, t.next + 1)
        ELSE BadSelector

\* The selector literals of fetch_metadata.  They are raw strings, so each
\* backslash of the source is a character of the selector.
SelTitle == "title"
SelOgTitle == "meta[property=\\\"og:title\\\"]"
SelDescription == "meta[name=\\\"description\\\"]"
SelOgDescription == "meta[property=\\\"og:description\\\"]"
SelOgImage == "meta[property=\\\"og:image\\\"]"
SelIcon == "link[rel~=\\\"icon\\\"]"

Selectors ==
    {SelTitle, SelOgTitle, SelDescription, SelOgDescription, SelOgImage, SelIcon}

\* Selector::parse of each literal
ParsedSelector == [s \in Selectors |-> SelectorParse(s)]

----------------------------------------------------------------------------
(* The parsed document: its elements in document order, each                *)
(* [tag, attrs, text] with attrs a sequence of [name, value]               *)

\* the positions of the attributes of e called name
AttrAt(e, name) == {k \in 1..Len(e.attrs) : e.attrs[k].name = name}

\* ElementRef::value().attr(name)
Attr(e, name) ==
    IF AttrAt(e, name) = {} THEN None
    ELSE Some(e.attrs[Min(AttrAt(e, name))].value)

\* [attr~=value]: value is one of the whitespace-separated words of v
HasToken(v, tok) ==
    /\ tok # ""
    /\ \A k \in 1..Len(tok) : ~IsWhitespace(Ch(tok, k))
    /\ \E a \in 1..Len(v) :
          /\ Slice(v, a, a + Len(tok) - 1) = tok
          /\ a = 1 \/ IsWhitespace(Ch(v, a - 1))
          /\ a + Len(tok) - 1 = Len(v) \/ IsWhitespace(Ch(v, a + Len(tok)))

Matches(e, sel) ==
    /\ e.tag = sel.tag
    /\ \/ sel.attr = ""
       \/ /\ Attr(e, sel.attr).some
          /\ \/ sel.op = "=" /\ Attr(e, sel.attr).val = sel.value
             \/ sel.op = "~=" /\ HasToken(Attr(e, sel.attr).val, sel.value)

\* the positions in doc of the elements that the parsed selector matches
Hits(doc, parsed) == {k \in 1..Len(doc) : Matches(doc[k], parsed)}

\* .next() of the matches
FirstHit(hits) ==
    IF hits = {} THEN [panic |-> FALSE, found |-> FALSE, at |-> 0]
    ELSE [panic |-> FALSE, found |-> TRUE, at |-> Min(hits)]

\* document.select(&Selector::parse(sel).unwrap()).next(): the unwrap
\* panics when the selector does not parse
Select(doc, sel) ==
    IF ~ParsedSelector[sel].ok THEN [panic |-> TRUE, found |-> FALSE, at |-> 0]
    ELSE FirstHit(Hits(doc, ParsedSelector[sel]))

\* .and_then(|m| m.value().attr(name)) on a result of Select
AndThenAttr(doc, s, name) ==
    [panic |-> s.panic, val |-> IF s.found THEN Attr(doc[s.at], name) ELSE None]

SelectAttr(doc, sel, name) == AndThenAttr(doc, Select(doc, sel), name)

----------------------------------------------------------------------------
(* url::Url, for URLs without dot segments and without characters that     *)
(* need percent-encoding                                                   *)

SchemeChars == "abcdefghijklmnopqrstuvwxyzABCDEFGHIJKLMNOPQRSTUVWXYZ0123456789+-."

SchemeCharSet == CharsOf(SchemeChars)
AlphaCharSet == CharsOf(LowerChars) \cup CharsOf(UpperChars)

\* the first position at or after i holding one of the characters of stops,
\* Len(s) + 1 when there is none
NextOf(s, i, stops) ==
    IF \E k \in i..Len(s) : Ch(s, k) \in stops
    THEN Min({k \in i..Len(s) : Ch(s, k) \in stops})
    ELSE Len(s) + 1

\* the position of the ":" that ends a scheme at the start of s, or 0
SchemeEndAt(s, c) ==
    IF /\ c > 1 /\ c <= Len(s)
       /\ Ch(s, 1) \in AlphaCharSet
       /\ \A k \in 1..(c - 1) : Ch(s, k) \in SchemeCharSet
    THEN c ELSE 0

SchemeEnd(s) == SchemeEndAt(s, NextOf(s, 1, {":"}))

SpecialSchemes == {"http", "https", "ws", "wss", "ftp", "file"}

\* Url::parse of an absolute URL: [ok, scheme, host, path, rest], rest being
\* the query and fragment
BadUrl == [ok |-> FALSE, scheme |-> "", host |-> "", path |-> "", rest |-> ""]

\* scheme://host/path?rest, the host ending before hostEnd and the path
\* before pathEnd
UrlWithAuthority(s, scheme, host, p, pathEnd) ==
    IF scheme \in SpecialSchemes \ {"file"} /\ host = "" THEN BadUrl
    ELSE [ok |-> TRUE, scheme |-> scheme, host |-> host,
          path |-> IF p = "" THEN "/" ELSE p,
          rest |-> Slice(s, pathEnd, Len(s))]

UrlFromHost(s, scheme, hostAt, hostEnd, pathEnd) ==
    UrlWithAuthority(s, scheme, Slice(s, hostAt, hostEnd - 1),
                     Slice(s, hostEnd, pathEnd - 1), pathEnd)

UrlFromScheme(s, c, scheme, hostEnd) ==
    IF c = 0 THEN BadUrl
    ELSE IF Slice(s, c + 1, c + 2) # "//" THEN
        IF scheme \in SpecialSchemes THEN BadUrl
        ELSE [ok |-> TRUE, scheme |-> scheme, host |-> "",
              path |-> Slice(s, c + 1, Len(s)), rest |-> ""]
    ELSE UrlFromHost(s, scheme, c + 3, hostEnd, NextOf(s, hostEnd, {"?", "#"}))

UrlParseAt(s, c) ==
    UrlFromScheme(s, c, ToAsciiLowercase(Slice(s, 1, c - 1)),
                  NextOf(s, c + 3, {"/", "?", "#"}))

UrlParse(s) == UrlParseAt(s, SchemeEnd(s))

\* Url::to_string
UrlToString(u) ==
    IF u.host = "" /\ u.scheme \notin SpecialSchemes
    THEN u.scheme \o ":" \o u.path \o u.rest
    ELSE u.scheme \o "://" \o u.host \o u.path \o u.rest

\* Url::parse(..).map(|u| u.to_string())
ParsedToString(u) == IF u.ok THEN Ok(UrlToString(u)) ELSE Err

\* the path of a URL up to and including its last "/"
Dir(p) == Slice(p, 1, LastIndexOf(p, "/"))

\* scheme://host
Origin(base) == base.scheme \o "://" \o base.host

\* base_url.join(href).map(|u| u.to_string()), base being a parsed URL
UrlJoin(base, href) ==
    IF SchemeEnd(href) # 0 THEN ParsedToString(UrlParse(href))
    ELSE IF StartsWith(href, "//")
    THEN ParsedToString(UrlParse(base.scheme \o ":" \o href))
    ELSE IF StartsWith(href, "/") THEN Ok(Origin(base) \o href)
    ELSE IF href = "" THEN Ok(Origin(base) \o base.path \o base.rest)
    ELSE IF StartsWith(href, "?") \/ StartsWith(href, "#")
    THEN Ok(Origin(base) \o base.path \o href)
    ELSE Ok(Origin(base) \o Dir(base.path) \o href)

\* reqwest::blocking::get accepts a string that parses as an http or https URL
IsHttpUrl(u) == u.ok /\ u.scheme \in {"http", "https"}

IsRequestable(s) == IsHttpUrl(UrlParse(s))

----------------------------------------------------------------------------
(* LinkMetadata and fetch_metadata *)

LinkMetadata(u, title, description, image, favicon) ==
    [url |-> u, title |-> title, description |-> description,
     image |-> image, favicon |-> favicon]

\* Mutant: the URL stands in for the missing title
DegradedMetaUrlAsTitle(u) == LinkMetadata(u, Some(u), None, None, None)

\* the Err arm of handle_dropped_file
DegradedMeta(u) == LinkMetadata(u, None, None, None, None)

\* Each step gives [panic, val]: panic when an unwrap of a selector failed

\* the text of the first <title>, kept when it is not blank
TitleText(doc, elem) ==
    IF elem.found /\ Trim(doc[elem.at].text) # ""
    THEN Some(Trim(doc[elem.at].text)) ELSE None

\* `if title.is_none()`: the og:title fallback
TitleOr(doc, title) ==
    IF title.some THEN [panic |-> FALSE, val |-> title]
    ELSE SelectAttr(doc, SelOgTitle, "content")

\* Title
TitleStep(doc) ==
    IF Select(doc, SelTitle).panic THEN [panic |-> TRUE, val |-> None]
    ELSE TitleOr(doc, TitleText(doc, Select(doc, SelTitle)))

\* the loop over the two selectors, after the first one
DescriptionOr(doc, first) ==
    IF first.panic \/ first.val.some THEN first
    ELSE SelectAttr(doc, SelOgDescription, "content")

\* Description
DescriptionStep(doc) ==
    DescriptionOr(doc, SelectAttr(doc, SelDescription, "content"))

\* Image
ImageStep(doc) == SelectAttr(doc, SelOgImage, "content")

\* .unwrap_or_else(|_| href.to_string())
UnwrapOr(joined, href) == IF joined.ok THEN joined.val ELSE href

\* the closure mapped over the favicon href
ResolveFavicon(href, base_url) ==
    IF StartsWith(href, "http") \/ StartsWith(href, "//") THEN href
    ELSE UnwrapOr(UrlJoin(base_url, href), href)

\* .map(closure) on the href found
MapFavicon(l, base_url) ==
    [panic |-> l.panic,
     val |-> IF l.val.some THEN Some(ResolveFavicon(l.val.val, base_url))
             ELSE None]

\* Favicon
FaviconStep(doc, base_url) ==
    MapFavicon(SelectAttr(doc, SelIcon, "href"), base_url)

\* What the network answers to a GET: the request fails, or a response
\* arrives from final (the URL after redirects) whose body either cannot be
\* read as text or parses to the document doc
GetFailed == [get_ok |-> FALSE, final |-> "", text_ok |-> FALSE, doc |-> <<>>]
BodyUnreadable(final) ==
    [get_ok |-> TRUE, final |-> final, text_ok |-> FALSE, doc |-> <<>>]
Page(final, doc) ==
    [get_ok |-> TRUE, final |-> final, text_ok |-> TRUE, doc |-> doc]

\* The results of fetch_metadata: [kind, line, meta], kind "err" for an Err,
\* "panic" for a panic at line, "ok" for Ok(meta)
FetchErr(u) == [kind |-> "err", line |-> 0, meta |-> DegradedMeta(u)]
FetchPanic(u, line) == [kind |-> "panic", line |-> line, meta |-> DegradedMeta(u)]
FetchOk(meta) == [kind |-> "ok", line |-> 0, meta |-> meta]

\* the statements of fetch_metadata after the document was parsed, in order
Extract(u, title, description, image, favicon) ==
    IF title.panic THEN FetchPanic(u, 94)
    ELSE IF description.panic THEN FetchPanic(u, 104)
    ELSE IF image.panic THEN FetchPanic(u, 114)
    ELSE IF favicon.panic THEN FetchPanic(u, 121)
    ELSE FetchOk(LinkMetadata(u, title.val, description.val, image.val,
                              favicon.val))

\* fetch_metadata(url) when the network answers r
fetch_metadata(u, r) ==
    IF ~r.get_ok \/ ~r.text_ok THEN FetchErr(u)
    ELSE Extract(u, TitleStep(r.doc), DescriptionStep(r.doc), ImageStep(r.doc),
                 FaviconStep(r.doc, UrlParse(r.final)))

----------------------------------------------------------------------------
(* The environment: the files that can be dropped, and the network *)

File(content) == [readable |-> TRUE, content |-> content]
Unreadable == [readable |-> FALSE, content |-> ""]

PageUrl == "https://example.com/dir/page"
OtherUrl == "https://example.org/"
RedirectUrl == "https://www.example.net/new/home"

Paths ==
    {"/d/link.url", "/d/LINK.WEBLOC", "/d/empty.url", "/d/empty.webloc",
     "/d/nofield.url", "/d/nofield.webloc", "/d/notes.txt", "/d.url/README",
     "/d/.url", "/d/gone.url"}

FS ==
    [p \in Paths |->
        CASE p = "/d/link.url" ->
               File("[InternetShortcut]\r\nurl=x\r\nURL= " \o OtherUrl
                    \o " \r\nURL=" \o PageUrl \o "\r\n")
          [] p = "/d/LINK.WEBLOC" ->
               File("<plist><dict><key>URL</key><string>\n " \o PageUrl
                    \o "\n</string><string>" \o OtherUrl
                    \o "</string></dict></plist>")
          [] p = "/d/empty.url" -> File("[InternetShortcut]\nURL= \n")
          [] p = "/d/empty.webloc" -> File("<string></string>")
          [] p = "/d/nofield.url" -> File(" URL=" \o PageUrl \o "\nurl=" \o PageUrl)
          [] p = "/d/nofield.webloc" -> File("<string>" \o PageUrl)
          [] p = "/d/notes.txt" -> File("URL=" \o PageUrl \o "\n")
          [] p = "/d.url/README" -> File("URL=" \o PageUrl \o "\n")
          [] p = "/d/.url" -> File("URL=" \o PageUrl \o "\n")
          [] OTHER -> Unreadable]

Element(tag, attrs, text) == [tag |-> tag, attrs |-> attrs, text |-> text]
A(name, value) == [name |-> name, value |-> value]

\* no <title>, an og:title, and an icon with a root-relative href
DocOg ==
    << Element("meta", <<A("property", "og:title"), A("content", "OG Title")>>, ""),
       Element("link", <<A("rel", "shortcut icon"), A("href", "/favicon.ico")>>, "") >>

\* <title> Example </title>, og:title, description, og:image and an icon
\* with an absolute href
DocFull ==
    << Element("title", <<>>, " Example "),
       Element("meta", <<A("property", "og:title"), A("content", "Other")>>, ""),
       Element("meta", <<A("name", "description"), A("content", "About")>>, ""),
       Element("meta", <<A("property", "og:image"), A("content", "https://example.com/i.png")>>, ""),
       Element("link", <<A("rel", "icon"), A("href", "https://cdn.example.com/f.png")>>, "") >>

\* a blank <title> and a blank og:title
DocBlank ==
    << Element("title", <<>>, "  "),
       Element("meta", <<A("property", "og:title"), A("content", " ")>>, ""),
       Element("link", <<A("rel", "stylesheet"), A("href", "site.css")>>, "") >>

\* attribute values that carry the quote characters themselves
DocQuoted ==
    << Element("title", <<>>, "Quoted"),
       Element("meta", <<A("name", "\"description\""), A("content", "About")>>, ""),
       Element("link", <<A("rel", "\"icon\""), A("href", "favicon.ico")>>, "") >>

Docs == {DocFull, DocOg, DocBlank, DocQuoted}

\* the URL of the response: the request's URL, or the end of a redirect chain
FinalUrls(u) == {UrlToString(UrlParse(u)), RedirectUrl}

Responses(u) ==
    IF ~IsRequestable(u) THEN {GetFailed}
    ELSE {GetFailed, BodyUnreadable(UrlToString(UrlParse(u)))}
         \cup {Page(f, d) : f \in FinalUrls(u), d \in Docs}

----------------------------------------------------------------------------
(* The plugin: on_event, the spawned thread, handle_dropped_file *)

Drops == 1..MaxDrops

NoInput == [ext |-> "", file |-> Unreadable]

Init ==
    /\ dropped = 0
    /\ pc = [i \in Drops |-> "none"]
    /\ path = [i \in Drops |-> ""]
    /\ url = [i \in Drops |-> None]
    /\ resp = [i \in Drops |-> None]
    /\ ret = [i \in Drops |-> None]
    /\ panicLine = [i \in Drops |-> 0]
    /\ fetches = [i \in Drops |-> 0]
    /\ emitted = <<>>
    /\ handlerRet = <<>>
    /\ pin = NoInput
    /\ pout = None

\* on_event receives DroppedFile(p): the thread is spawned and the closure
\* returns Ok(())
Drop(p) ==
    /\ dropped < MaxDrops
    /\ dropped' = dropped + 1
    /\ pc' = [pc EXCEPT ![dropped + 1] = "spawned"]
    /\ path' = [path EXCEPT ![dropped + 1] = p]
    /\ handlerRet' = Append(handlerRet, "Ok")
    /\ UNCHANGED <<url, resp, ret, panicLine, fetches, emitted, pin, pout>>

\* `ext == "webloc" || ext == "url"`
IsShortcutExt(ext) == ext = "webloc" \/ ext = "url"

\* Mutant: the extension is not looked at, every file is read as a .url file
ShortcutUrlNoExtCheck(p) == parse_shortcut(FS[p], "url")

\* handle_dropped_file up to the call of fetch_metadata: the URL to fetch,
\* or Err when the function returns None
ShortcutUrl(p) ==
    LET e == Extension(p)
        ext == ToAsciiLowercase(e.val)
    IN  IF ~e.some THEN Err
        ELSE IF ~IsShortcutExt(ext) THEN Err
        ELSE parse_shortcut(FS[p], ext)

\* thread i runs handle_dropped_file up to the request; on None the closure
\* emits nothing and the thread ends
HandleFile(i) ==
    /\ pc[i] = "spawned"
    /\ LET u == ShortcutUrl(path[i])
       IN  IF u.ok
           THEN /\ url' = [url EXCEPT ![i] = Some(u.val)]
                /\ pc' = [pc EXCEPT ![i] = "fetching"]
           ELSE /\ url' = url
                /\ pc' = [pc EXCEPT ![i] = "done"]
    /\ UNCHANGED <<dropped, path, resp, ret, panicLine, fetches, emitted,
                   handlerRet, pin, pout>>

\* the match on fetch_metadata's result in handle_dropped_file
HandleResult(u, out) ==
    IF out.kind = "ok" THEN Some(out.meta) ELSE Some(DegradedMeta(u))

\* thread i gets out from fetch_metadata: a panic ends the thread, any
\* other result makes handle_dropped_file return
FetchReturns(i, out) ==
    IF out.kind = "panic"
    THEN /\ pc' = [pc EXCEPT ![i] = "panicked"]
         /\ panicLine' = [panicLine EXCEPT ![i] = out.line]
         /\ ret' = ret
    ELSE /\ pc' = [pc EXCEPT ![i] = "returned"]
         /\ panicLine' = panicLine
         /\ ret' = [ret EXCEPT ![i] = HandleResult(url[i].val, out)]

\* the blocking fetch_metadata call of thread i returns or panics
Fetch(i) ==
    /\ pc[i] = "fetching"
    /\ \E r \in Responses(url[i].val) :
          /\ resp' = [resp EXCEPT ![i] = Some(r)]
          /\ fetches' = [fetches EXCEPT ![i] = @ + 1]
          /\ FetchReturns(i, fetch_metadata(url[i].val, r))
    /\ UNCHANGED <<dropped, path, url, emitted, handlerRet, pin, pout>>

\* app.emit_all("link-dropped", meta)
Emit(i) ==
    /\ pc[i] = "returned"
    /\ emitted' = IF ret[i].some
                  THEN Append(emitted, [drop |-> i, event |-> "link-dropped",
                                        payload |-> ret[i].val])
                  ELSE emitted
    /\ pc' = [pc EXCEPT ![i] = "done"]
    /\ UNCHANGED <<dropped, path, url, resp, ret, panicLine, fetches,
                   handlerRet, pin, pout>>

Next ==
    \/ \E p \in Paths : Drop(p)
    \/ \E i \in Drops : HandleFile(i)
    \/ \E i \in Drops : Fetch(i)
    \/ \E i \in Drops : Emit(i)

Spec == Init /\ [][Next]_vars

----------------------------------------------------------------------------
(* parse_shortcut called directly on generated file contents *)

RECURSIVE Concats(_, _)
Concats(parts, n) ==
    IF n = 0 THEN {""}
    ELSE LET shorter == Concats(parts, n - 1)
         IN  shorter \cup {a \o b : a \in shorter, b \in parts}

UrlParts ==
    {"URL=a\n", "URL= b c \t\r\n", "url=d\n", " URL=e\n", "[x]\r\n", "URL=\n",
     "\n", "xURL=f"}

WeblocParts == {"<string>", "</string>", " a\n", "b", "<string/>"}

ParseInputs ==
    {[ext |-> "url", file |-> File(c)] : c \in Concats(UrlParts, MaxLines)}
    \cup {[ext |-> "webloc", file |-> File(c)] : c \in Concats(WeblocParts, MaxSegs)}
    \cup {[ext |-> e, file |-> Unreadable] : e \in {"url", "webloc"}}

InitParse ==
    /\ dropped = 0
    /\ pc = [i \in Drops |-> "none"]
    /\ path = [i \in Drops |-> ""]
    /\ url = [i \in Drops |-> None]
    /\ resp = [i \in Drops |-> None]
    /\ ret = [i \in Drops |-> None]
    /\ panicLine = [i \in Drops |-> 0]
    /\ fetches = [i \in Drops |-> 0]
    /\ emitted = <<>>
    /\ handlerRet = <<>>
    /\ pin \in ParseInputs
    /\ pout = None

CallParseShortcut ==
    /\ ~pout.some
    /\ pout' = Some(parse_shortcut(pin.file, pin.ext))
    /\ UNCHANGED <<dropped, pc, path, url, resp, ret, panicLine, fetches,
                   emitted, handlerRet, pin>>

NextParse == CallParseShortcut

SpecParse == InitParse /\ [][NextParse]_vars

----------------------------------------------------------------------------
(* Properties *)

Terminated(i) == pc[i] \in {"done", "panicked"}

\* the positions in emitted of the events that thread i broadcast
EmittedFor(i) == {k \in 1..Len(emitted) : emitted[k].drop = i}

FetchFailed(i) ==
    resp[i].some /\ (~resp[i].val.get_ok \/ ~resp[i].val.text_ok)

FetchSucceeded(i) ==
    resp[i].some /\ resp[i].val.get_ok /\ resp[i].val.text_ok

\* t is s without its leading and trailing whitespace
IsTrimOf(t, s) ==
    \E a \in 0..Len(s) : \E b \in a..Len(s) :
       /\ t = Slice(s, a + 1, b)
       /\ \A k \in 1..a : IsWhitespace(Ch(s, k))
       /\ \A k \in (b + 1)..Len(s) : IsWhitespace(Ch(s, k))
       /\ t = "" \/ (~IsWhitespace(Ch(t, 1)) /\ ~IsWhitespace(Ch(t, Len(t))))

\* the positions of c where a line starts with "URL="
UrlLineStarts(c) ==
    {p \in 1..Len(c) : (p = 1 \/ Ch(c, p - 1) = "\n") /\ Slice(c, p, p + 3) = "URL="}

\* the positions of c where "<string>" starts
StringOpens(c) == {a \in 1..Len(c) : Slice(c, a, a + 7) = "<string>"}

\* the positions of c, from position from on, where "</string>" starts
StringCloses(c, from) == {b \in from..Len(c) : Slice(c, b, b + 8) = "</string>"}

\* C1: a run that parsed a URL from the shortcut and has ended has emitted a
\* "link-dropped" notification, whatever the fetch and the extraction did.
C1_NotifiedOnceParsed ==
    \A i \in Drops :
       Terminated(i) /\ url[i].some =>
          \E k \in EmittedFor(i) : emitted[k].event = "link-dropped"

\* C2: when the URL U was parsed and the fetch failed (request error or
\* unreadable body), the run returns and emits exactly one LinkMetadata,
\* with url = U and title, description, image and favicon absent.
C2_DegradedOnFetchFailure ==
    \A i \in Drops :
       FetchFailed(i) =>
          /\ pc[i] \in {"returned", "done"}
          /\ ret[i].some
          /\ ret[i].val = [url |-> url[i].val, title |-> None,
                           description |-> None, image |-> None,
                           favicon |-> None]
          /\ Cardinality(EmittedFor(i)) = IF pc[i] = "done" THEN 1 ELSE 0
          /\ \A k \in EmittedFor(i) : emitted[k].payload = ret[i].val

C2_Witness ==
    \E i \in Drops : \E j \in Drops :
       /\ pc[i] = "done" /\ resp[i].some /\ ~resp[i].val.get_ok
       /\ path[i] = "/d/link.url" /\ url[i].val = OtherUrl
       /\ pc[j] = "done" /\ resp[j].some /\ resp[j].val.get_ok
       /\ ~resp[j].val.text_ok
       /\ Len(emitted) = 2

\* C3: when the fetch succeeded, the url of the emitted LinkMetadata is the
\* final URL after redirects, not the URL parsed from the shortcut.
C3_UrlIsFinalUrl ==
    \A i \in Drops :
       Terminated(i) /\ FetchSucceeded(i) =>
          \E k \in EmittedFor(i) : emitted[k].payload.url = resp[i].val.final

\* C4: the url of every LinkMetadata produced is a non-empty string.
C4_UrlNeverEmpty ==
    /\ \A k \in 1..Len(emitted) : emitted[k].payload.url # ""
    /\ \A i \in Drops : ret[i].some => ret[i].val.url # ""

\* the file name of p ends in ".url" or ".webloc", in any letter case, after
\* a non-empty stem
HasShortcutExtension(p) ==
    LET name == Slice(p, LastIndexOf(p, "/") + 1, Len(p))
    IN  \E k \in 2..Len(name) :
           /\ Ch(name, k) = "."
           /\ \A m \in (k + 1)..Len(name) : Ch(name, m) # "."
           /\ ToAsciiLowercase(Slice(name, k + 1, Len(name))) \in {"url", "webloc"}

\* the file at p is readable and holds the field of its format
HasUrlField(p) ==
    LET c == FS[p].content
        webloc == ToAsciiLowercase(Slice(p, Len(p) - 6, Len(p))) = ".webloc"
    IN  /\ FS[p].readable
        /\ IF webloc
           THEN \E a \in StringOpens(c) : StringCloses(c, a + 8) # {}
           ELSE UrlLineStarts(c) # {}

\* the paths whose drop may fetch and notify
ShortcutPaths == {p \in Paths : HasShortcutExtension(p) /\ HasUrlField(p)}

\* C5: a drop fetches or notifies only if its file has the extension url or
\* webloc (case-insensitively) and the shortcut parse succeeded; any other
\* drop ends silently, and the event handler always returns Ok.
C5_SilentUnlessShortcutParsed ==
    /\ \A i \in Drops :
          path[i] \notin ShortcutPaths =>
             /\ fetches[i] = 0
             /\ ~url[i].some /\ ~resp[i].some /\ ~ret[i].some
             /\ EmittedFor(i) = {}
             /\ pc[i] \in {"none", "spawned", "done"}
    /\ \A k \in 1..Len(handlerRet) : handlerRet[k] = "Ok"

C5_Witness ==
    \E i \in Drops : \E j \in Drops :
       /\ path[i] = "/d/notes.txt" /\ pc[i] = "done"
       /\ path[j] = "/d/LINK.WEBLOC" /\ pc[j] = "done"
       /\ EmittedFor(i) = {} /\ EmittedFor(j) # {}

\* C6: two different valid shortcut files dropped concurrently give exactly
\* two notifications once both runs have ended, each with the url of its own
\* file; and no drop ever gives more than one notification.
C6_TwoDropsTwoNotifications ==
    /\ \A i \in Drops : Cardinality(EmittedFor(i)) <= 1
    /\ \A i \in Drops : \A j \in Drops :
          /\ i # j /\ path[i] # path[j]
          /\ Terminated(i) /\ Terminated(j)
          /\ url[i].some /\ IsRequestable(url[i].val)
          /\ url[j].some /\ IsRequestable(url[j].val)
          => /\ Cardinality(EmittedFor(i) \cup EmittedFor(j)) = 2
             /\ \A k \in EmittedFor(i) : emitted[k].payload.url = url[i].val
             /\ \A k \in EmittedFor(j) : emitted[k].payload.url = url[j].val

\* C7: for a readable .url file, parse_shortcut returns the trimmed rest of
\* the first line that starts with "URL=" (case-sensitive, no leading
\* whitespace), and an error when no line does.
C7_FirstUrlLine ==
    pout.some /\ pin.ext = "url" /\ pin.file.readable =>
       LET c == pin.file.content
           starts == UrlLineStarts(c)
           p0 == Min(starts)
           eol == NextOf(c, p0, {"\n"})
       IN  IF starts = {} THEN ~pout.val.ok
           ELSE pout.val.ok /\ IsTrimOf(pout.val.val, Slice(c, p0 + 4, eol - 1))

C7_Witness ==
    /\ pout.some /\ pin.ext = "url" /\ pout.val.ok
    /\ pout.val.val = "b c"
    /\ StartsWith(pin.file.content, " URL=e\nurl=d\n")

\* C8: for a readable .webloc file, parse_shortcut returns the trimmed text
\* between the first "<string>" and the first "</string>" after it, and an
\* error when either is missing.
C8_FirstStringElement ==
    pout.some /\ pin.ext = "webloc" /\ pin.file.readable =>
       LET c == pin.file.content
           opens == StringOpens(c)
           a0 == Min(opens)
           closes == StringCloses(c, a0 + 8)
       IN  IF opens = {} THEN ~pout.val.ok
           ELSE IF closes = {} THEN ~pout.val.ok
           ELSE pout.val.ok
                /\ IsTrimOf(pout.val.val, Slice(c, a0 + 8, Min(closes) - 1))

C8_Witness ==
    /\ pout.some /\ pin.ext = "webloc" /\ pout.val.ok
    /\ pout.val.val = "a"
    /\ Cardinality(StringOpens(pin.file.content)) >= 2

\* the title the stated priority gives for doc
ExpectedTitle(doc) ==
    LET titles == {k \in 1..Len(doc) : doc[k].tag = "title"}
        ogs == {k \in 1..Len(doc) :
                   /\ doc[k].tag = "meta"
                   /\ Attr(doc[k], "property") = Some("og:title")}
        text == IF titles = {} THEN "" ELSE doc[Min(titles)].text
        og == IF ogs = {} THEN None ELSE Attr(doc[Min(ogs)], "content")
    IN  IF Trim(text) # "" THEN Some(Trim(text))
        ELSE IF og.some /\ Trim(og.val) # "" THEN Some(og.val)
        ELSE None

\* C9: the title of the LinkMetadata of a fetched document is the trimmed
\* text of the first <title> when non-blank, else the content of the og:title
\* meta when non-blank, else absent.
C9_TitlePriority ==
    \A i \in Drops :
       Terminated(i) /\ FetchSucceeded(i) =>
          \E k \in EmittedFor(i) :
             emitted[k].payload.title = ExpectedTitle(resp[i].val.doc)

\* the favicon the stated rule gives for doc fetched from final
ExpectedFavicon(doc, final) ==
    LET icons == {k \in 1..Len(doc) :
                     /\ doc[k].tag = "link"
                     /\ Attr(doc[k], "rel").some
                     /\ HasToken(Attr(doc[k], "rel").val, "icon")}
        href == IF icons = {} THEN None ELSE Attr(doc[Min(icons)], "href")
        joined == UrlJoin(UrlParse(final), href.val)
    IN  IF ~href.some THEN None
        ELSE IF StartsWith(href.val, "http") \/ StartsWith(href.val, "//")
        THEN href
        ELSE IF joined.ok THEN Some(joined.val)
        ELSE href

\* C10: the favicon of the LinkMetadata of a fetched document is the href of
\* the first link whose rel has the token icon, verbatim when it begins with
\* "http" or "//", else resolved against the final URL; absent without one.
C10_FaviconResolved ==
    \A i \in Drops :
       Terminated(i) /\ FetchSucceeded(i) =>
          \E k \in EmittedFor(i) :
             emitted[k].payload.favicon
                = ExpectedFavicon(resp[i].val.doc, resp[i].val.final)

====
